---- MODULE Spec2Model ----
(***************************************************************************)
(* Model of the drawing canvas component, src/components/Canvas.tsx.       *)
(*                                                                         *)
(* React state (useState) is modelled by two things: the variable holding  *)
(* the latest value of the state (every queued setState applied, in        *)
(* order), and `closure`, the values of paths / currentPath / tool that    *)
(* the callbacks created by the last render captured.  Render is the       *)
(* component function running again; React schedules it after a setState,  *)
(* so any number of callbacks may run between a setState and the Render    *)
(* that makes it visible to the callbacks.  Refs (useRef) and shared       *)
(* values (useSharedValue) are read and written in place.                  *)
(*                                                                         *)
(* Numbers: scale is kept in units of 1/ScaleUnit (100 = 1.0), coordinates *)
(* and translations are whole pixels, divisions round down.                *)
(*                                                                         *)
(* Gesture delivery (the gesture library, not part of the repository) is   *)
(* the per-gesture sequence start, updates, then end or cancel; the draw   *)
(* gesture's onFinalize runs after its end and on its cancel.  The pan     *)
(* and draw gestures race (at most one of them is active), the pinch runs  *)
(* simultaneously with either.                                             *)
(***************************************************************************)
EXTENDS Integers, Sequences, FiniteSets, TLC

\* ---------------------------------------------------------------- bounds
\* strokes held in paths and undoStack together, and points of one stroke,
\* under each specification's inputs
MaxStrokes == 2
MaxPoints == 1
CaptureMaxStrokes == 1
CaptureMaxPoints == 2
BgMaxStrokes == 2
BgMaxPoints == 1
CoordMaxStrokes == 1
CoordMaxPoints == 2
FbMaxStrokes == 1
FbMaxPoints == 2
LifoMaxStrokes == 2
LifoMaxPoints == 2
ViewMaxStrokes == 1
ViewMaxPoints == 1
\* largest |translateX|, |translateY| a pan update may produce
MaxTranslate == 400

\* ------------------------------------------------------- program constants
SCREEN_WIDTH == 400
SCREEN_HEIGHT == 800
ScaleUnit == 100
MinScale == 50
MaxScale == 300

\* ------------------------------------------------------------ input sets
Tools == {"pen", "highlighter", "eraser"}
NullUri == "<null>"
\* the bounding rect of the Svg element, or NoRect when there is no element
\* or no rect, or measuring throws
NoRect == [left |-> -1, top |-> -1]

\* The inputs a specification draws from: the events the host and the
\* gesture library deliver, and the platform the component runs on.
\* event.scale of a pinch update is in units of 1/ScaleUnit.
E1 == [x |-> 30, y |-> 900]
E2 == [x |-> 500, y |-> 40]
R1 == [left |-> 10, top |-> 20]
\* a pan update's translationX, translationY
P1 == [x |-> 400, y |-> 0]
P2 == [x |-> 100, y |-> 250]

\* history: strokes that differ in their start point, one pan off the canvas
HistoryInputs ==
    [platforms |-> {"ios"},
     tools |-> {"pen"},
     uris |-> {"file:a.png", NullUri},
     events |-> {E1, E2},
     rects |-> {NoRect},
     pinchScales |-> {ScaleUnit},
     panTranslations |-> {P1},
     maxStrokes |-> MaxStrokes, maxPoints |-> MaxPoints,
     maxTranslate |-> MaxTranslate]

\* stroke capture: changes away from the initial pen, strokes of several
\* points from two event positions, one pan off the canvas
CaptureInputs ==
    [platforms |-> {"ios"},
     tools |-> {"highlighter", "eraser"},
     uris |-> {NullUri},
     events |-> {E1, E2},
     rects |-> {NoRect},
     pinchScales |-> {ScaleUnit},
     panTranslations |-> {P1},
     maxStrokes |-> CaptureMaxStrokes, maxPoints |-> CaptureMaxPoints,
     maxTranslate |-> MaxTranslate]

\* tool changes: back and forth between two tools, strokes of several points
\* from one event position
ToolInputs ==
    [platforms |-> {"ios"},
     tools |-> {"pen", "highlighter"},
     uris |-> {NullUri},
     events |-> {E1},
     rects |-> {NoRect},
     pinchScales |-> {ScaleUnit},
     panTranslations |-> {P1},
     maxStrokes |-> CaptureMaxStrokes, maxPoints |-> CaptureMaxPoints,
     maxTranslate |-> MaxTranslate]

\* background image: strokes from one event position, the image set and cleared
BackgroundInputs ==
    [platforms |-> {"ios"},
     tools |-> {"pen"},
     uris |-> {"file:a.png", NullUri},
     events |-> {E1},
     rects |-> {NoRect},
     pinchScales |-> {ScaleUnit},
     panTranslations |-> {P1},
     maxStrokes |-> BgMaxStrokes, maxPoints |-> BgMaxPoints,
     maxTranslate |-> MaxTranslate]

\* coordinates: on the web and on a device, with and without a measured
\* rect, under a pinch and a pan that move the viewport
CoordInputs ==
    [platforms |-> {"web", "ios"},
     tools |-> {"pen"},
     uris |-> {NullUri},
     events |-> {E1},
     rects |-> {NoRect, R1},
     pinchScales |-> {300},
     panTranslations |-> {P2},
     maxStrokes |-> CoordMaxStrokes, maxPoints |-> CoordMaxPoints,
     maxTranslate |-> MaxTranslate]

\* measuring failures: on the web and on a device, every measurement of the
\* canvas failing, the viewport at scale 1
FallbackInputs ==
    [platforms |-> {"web", "ios"},
     tools |-> {"pen"},
     uris |-> {NullUri},
     events |-> {E1},
     rects |-> {NoRect},
     pinchScales |-> {ScaleUnit},
     panTranslations |-> {P1},
     maxStrokes |-> FbMaxStrokes, maxPoints |-> FbMaxPoints,
     maxTranslate |-> MaxTranslate]

\* undo and redo in sequence: strokes from one event position that differ in
\* their number of points
LifoInputs ==
    [platforms |-> {"ios"},
     tools |-> {"pen"},
     uris |-> {NullUri},
     events |-> {E1},
     rects |-> {NoRect},
     pinchScales |-> {ScaleUnit},
     panTranslations |-> {P1},
     maxStrokes |-> LifoMaxStrokes, maxPoints |-> LifoMaxPoints,
     maxTranslate |-> MaxTranslate]

\* zooming in and out: pinches by 6x and by a half, and a pan
ZoomInputs ==
    [platforms |-> {"ios"},
     tools |-> {"pen"},
     uris |-> {NullUri},
     events |-> {E1},
     rects |-> {NoRect},
     pinchScales |-> {50, 600},
     panTranslations |-> {P2},
     maxStrokes |-> ViewMaxStrokes, maxPoints |-> ViewMaxPoints,
     maxTranslate |-> MaxTranslate]

\* viewport: pinches and pans that move the viewport
ViewportInputs ==
    [platforms |-> {"ios"},
     tools |-> {"pen"},
     uris |-> {NullUri},
     events |-> {E1},
     rects |-> {NoRect},
     pinchScales |-> {20, 500},
     panTranslations |-> {P2},
     maxStrokes |-> ViewMaxStrokes, maxPoints |-> ViewMaxPoints,
     maxTranslate |-> MaxTranslate]

VARIABLES
    paths,            \* useState<DrawPath[]>, latest value
    currentPath,      \* useState<DrawPath | null>, latest value
    backgroundImage,  \* useState<string | null>, latest value
    tool,             \* useState tool, latest value
    closure,          \* paths, currentPath, tool as captured by the last render
    undoStack,        \* undoStack.current
    redoStack,        \* redoStack.current
    isDrawing,        \* isDrawing.current
    isPinching,       \* isPinching.current
    scale, savedScale,
    translateX, translateY,
    savedTranslateX, savedTranslateY,
    spring,           \* the withSpring animation in flight, if any
    drawState, panState, pinchState,   \* the gesture library's state of each gesture
    platformOS,       \* Platform.OS
    inputs,           \* the input sets of the specification (never changes)
    samples,          \* history: the points delivered to the draw gesture in progress
    pinchSeen,        \* history: a pinch was active during the draw gesture in progress
    panReleased       \* history: the last pan gesture was released, not cancelled,
                      \* while scale >= 1, and no pan has started since

vars == <<paths, currentPath, backgroundImage, tool, closure, undoStack, redoStack,
          isDrawing, isPinching, scale, savedScale, translateX, translateY,
          savedTranslateX, savedTranslateY, spring, drawState, panState, pinchState,
          platformOS, inputs, samples, pinchSeen, panReleased>>

drawingVars == <<paths, currentPath, backgroundImage, tool, closure, undoStack, redoStack,
                 isDrawing>>
viewportVars == <<scale, savedScale, translateX, translateY, savedTranslateX,
                  savedTranslateY, spring>>

\* ---------------------------------------------------------------- helpers
NULL == [type |-> "null"]
NoSpring == [active |-> FALSE, x |-> 0, y |-> 0]

Min(a, b) == IF a < b THEN a ELSE b
Max(a, b) == IF a > b THEN a ELSE b
Last(s) == s[Len(s)]
Front(s) == SubSeq(s, 1, Len(s) - 1)

ColorOf(t) ==
    IF t = "highlighter" THEN "rgba(255, 255, 0, 0.5)"
    ELSE IF t = "eraser" THEN "white" ELSE "black"

WidthOf(t) == IF t = "highlighter" THEN 20 ELSE IF t = "eraser" THEN 30 ELSE 2

NewPath(t, point) ==
    [points |-> <<point>>, color |-> ColorOf(t), width |-> WidthOf(t), type |-> t]

\* a pinch update that forgets the upper clamp
pinchedScaleNoUpperClamp(saved, eventScale) ==
    Max((saved * eventScale) \div ScaleUnit, MinScale)

\* Math.min(Math.max(savedScale.value * event.scale, 0.5), 3)
pinchedScale(saved, eventScale) ==
    Min(Max((saved * eventScale) \div ScaleUnit, MinScale), MaxScale)

\* (x - rect.left - translateX.value) / scale.value, clamped to the screen
ToLogical(v, origin, translate, sc, limit) ==
    Max(0, Min(((v - origin - translate) * ScaleUnit) \div sc, limit))

\* a getCoordinates that gives the canvas origin when it cannot measure
getCoordinatesOriginOnFailure(x, y, rect) ==
    IF platformOS = "web" /\ rect # NoRect
    THEN [x |-> ToLogical(x, rect.left, translateX, scale, SCREEN_WIDTH),
          y |-> ToLogical(y, rect.top, translateY, scale, SCREEN_HEIGHT)]
    ELSE [x |-> 0, y |-> 0]

getCoordinates(x, y, rect) ==
    IF platformOS = "web" /\ rect # NoRect
    THEN [x |-> ToLogical(x, rect.left, translateX, scale, SCREEN_WIDTH),
          y |-> ToLogical(y, rect.top, translateY, scale, SCREEN_HEIGHT)]
    ELSE [x |-> x, y |-> y]

\* the history the handle works on: paths is the React state, undoStack the ref
History == [paths |-> paths, undoStack |-> undoStack]

\* undo(): `seen` is the paths the handle's closure captured
undo(h, seen) ==
    IF Len(seen) > 0
    THEN [paths |-> Front(seen), undoStack |-> Append(h.undoStack, Last(seen))]
    ELSE h

\* a redo that restores the oldest undone stroke
redoOldestFirst(h) ==
    IF Len(h.undoStack) > 0
    THEN [paths |-> Append(h.paths, Head(h.undoStack)), undoStack |-> Tail(h.undoStack)]
    ELSE h

redo(h) ==
    IF Len(h.undoStack) > 0
    THEN [paths |-> Append(h.paths, Last(h.undoStack)), undoStack |-> Front(h.undoStack)]
    ELSE h

Snapshot == [paths |-> paths, currentPath |-> currentPath, tool |-> tool]

\* ------------------------------------------------------------------ Init
InitState ==
    /\ paths = <<>>
    /\ currentPath = NULL
    /\ backgroundImage = NullUri
    /\ tool = "pen"
    /\ closure = [paths |-> <<>>, currentPath |-> NULL, tool |-> "pen"]
    /\ undoStack = <<>>
    /\ redoStack = <<>>
    /\ isDrawing = FALSE
    /\ isPinching = FALSE
    /\ scale = ScaleUnit
    /\ savedScale = ScaleUnit
    /\ translateX = 0
    /\ translateY = 0
    /\ savedTranslateX = 0
    /\ savedTranslateY = 0
    /\ spring = NoSpring
    /\ drawState = "idle"
    /\ panState = "idle"
    /\ pinchState = "idle"
    /\ platformOS \in inputs.platforms
    /\ samples = <<>>
    /\ pinchSeen = FALSE
    /\ panReleased = FALSE

Init == inputs = HistoryInputs /\ InitState
InitCapture == inputs = CaptureInputs /\ InitState
InitViewport == inputs = ViewportInputs /\ InitState
InitBackground == inputs = BackgroundInputs /\ InitState
InitCoord == inputs = CoordInputs /\ InitState
InitFallback == inputs = FallbackInputs /\ InitState
InitLifo == inputs = LifoInputs /\ InitState
InitZoom == inputs = ZoomInputs /\ InitState
InitTools == inputs = ToolInputs /\ InitState

\* ------------------------------------------------------------- rendering
\* The component function runs again: the callbacks are re-created over the
\* latest state.
Render ==
    /\ closure # Snapshot
    /\ closure' = Snapshot
    /\ UNCHANGED <<paths, currentPath, backgroundImage, tool, undoStack, redoStack,
                   isDrawing, isPinching, viewportVars, drawState, panState, pinchState,
                   platformOS, inputs, samples, pinchSeen, panReleased>>

\* ------------------------------------------------------ imperative handle
Undo ==
    /\ Len(closure.paths) + Len(undoStack) <= inputs.maxStrokes
    /\ paths' = undo(History, closure.paths).paths
    /\ undoStack' = undo(History, closure.paths).undoStack
    /\ UNCHANGED <<currentPath, backgroundImage, tool, closure, redoStack, isDrawing,
                   isPinching, viewportVars, drawState, panState, pinchState,
                   platformOS, inputs, samples, pinchSeen, panReleased>>

Redo ==
    /\ paths' = redo(History).paths
    /\ undoStack' = redo(History).undoStack
    /\ UNCHANGED <<currentPath, backgroundImage, tool, closure, redoStack, isDrawing,
                   isPinching, viewportVars, drawState, panState, pinchState,
                   platformOS, inputs, samples, pinchSeen, panReleased>>

\* a setTool that restyles the stroke in progress
SetToolRestyles(t) ==
    /\ tool' = t
    /\ currentPath' = IF currentPath = NULL THEN NULL
                      ELSE [currentPath EXCEPT !.color = ColorOf(t),
                                               !.width = WidthOf(t), !.type = t]
    /\ UNCHANGED <<paths, backgroundImage, closure, undoStack, redoStack,
                   isDrawing, isPinching, viewportVars, drawState, panState, pinchState,
                   platformOS, inputs, samples, pinchSeen, panReleased>>

SetTool(t) ==
    /\ tool' = t
    /\ UNCHANGED <<paths, currentPath, backgroundImage, closure, undoStack, redoStack,
                   isDrawing, isPinching, viewportVars, drawState, panState, pinchState,
                   platformOS, inputs, samples, pinchSeen, panReleased>>

\* a setBackgroundImage that starts a fresh drawing
SetBackgroundImageClears(uri) ==
    /\ backgroundImage' = uri
    /\ paths' = <<>>
    /\ UNCHANGED <<currentPath, tool, closure, undoStack, redoStack,
                   isDrawing, isPinching, viewportVars, drawState, panState, pinchState,
                   platformOS, inputs, samples, pinchSeen, panReleased>>

SetBackgroundImage(uri) ==
    /\ backgroundImage' = uri
    /\ UNCHANGED <<paths, currentPath, tool, closure, undoStack, redoStack,
                   isDrawing, isPinching, viewportVars, drawState, panState, pinchState,
                   platformOS, inputs, samples, pinchSeen, panReleased>>

\* ----------------------------------------------------------- draw gesture
DrawOnStart(ev, rect) ==
    /\ drawState = "idle"
    /\ panState = "idle"
    /\ drawState' = "active"
    /\ pinchSeen' = FALSE
    /\ IF isPinching
       THEN UNCHANGED <<isDrawing, currentPath, samples>>
       ELSE /\ isDrawing' = TRUE
            /\ currentPath' = NewPath(closure.tool, getCoordinates(ev.x, ev.y, rect))
            /\ samples' = <<getCoordinates(ev.x, ev.y, rect)>>
    /\ UNCHANGED <<paths, backgroundImage, tool, closure, undoStack, redoStack,
                   isPinching, viewportVars, panState, pinchState, platformOS, inputs,
                   panReleased>>

DrawOnUpdate(ev, rect) ==
    /\ drawState = "active"
    /\ Len(samples) < inputs.maxPoints
    /\ samples' = IF samples = <<>> THEN samples
                  ELSE Append(samples, getCoordinates(ev.x, ev.y, rect))
    /\ IF ~isDrawing \/ closure.currentPath = NULL \/ isPinching
       THEN UNCHANGED currentPath
       ELSE currentPath' =
                IF currentPath = NULL
                THEN NULL
                ELSE [currentPath EXCEPT !.points =
                         Append(@, getCoordinates(ev.x, ev.y, rect))]
    /\ UNCHANGED <<paths, backgroundImage, tool, closure, undoStack, redoStack,
                   isDrawing, isPinching, viewportVars, drawState, panState, pinchState,
                   platformOS, inputs, pinchSeen, panReleased>>

DrawOnEnd ==
    /\ drawState = "active"
    /\ drawState' = "ended"
    /\ IF ~isDrawing \/ closure.currentPath = NULL
       THEN UNCHANGED <<paths, currentPath, isDrawing, redoStack>>
       ELSE /\ Len(paths) + Len(undoStack) < inputs.maxStrokes
            /\ paths' = Append(paths, closure.currentPath)
            /\ currentPath' = NULL
            /\ isDrawing' = FALSE
            /\ redoStack' = <<>>
    /\ samples' = <<>>
    /\ pinchSeen' = FALSE
    /\ UNCHANGED <<backgroundImage, tool, closure, undoStack, isPinching, viewportVars,
                   panState, pinchState, platformOS, inputs, panReleased>>

\* an onFinalize that resets the flag but keeps the stroke in progress
DrawOnFinalizeKeepsStroke ==
    /\ drawState \in {"active", "ended"}
    /\ drawState' = "idle"
    /\ isDrawing' = FALSE
    /\ samples' = <<>>
    /\ pinchSeen' = FALSE
    /\ UNCHANGED <<paths, currentPath, backgroundImage, tool, closure, undoStack,
                   redoStack, isPinching, viewportVars, panState, pinchState,
                   platformOS, inputs, panReleased>>

DrawOnFinalize ==
    /\ drawState \in {"active", "ended"}
    /\ drawState' = "idle"
    /\ isDrawing' = FALSE
    /\ currentPath' = NULL
    /\ samples' = <<>>
    /\ pinchSeen' = FALSE
    /\ UNCHANGED <<paths, backgroundImage, tool, closure, undoStack, redoStack,
                   isPinching, viewportVars, panState, pinchState, platformOS, inputs,
                   panReleased>>

\* ---------------------------------------------------------- pinch gesture
\* a pinch start that also drops the undone strokes
PinchOnStartClearsRedo ==
    /\ pinchState = "idle"
    /\ pinchState' = "active"
    /\ isPinching' = TRUE
    /\ savedScale' = scale
    /\ undoStack' = <<>>
    /\ pinchSeen' = (pinchSeen \/ samples # <<>>)
    /\ UNCHANGED <<paths, currentPath, backgroundImage, tool, closure, redoStack,
                   isDrawing, samples, scale, translateX, translateY, savedTranslateX,
                   savedTranslateY, spring, drawState, panState, platformOS, inputs,
                   panReleased>>

PinchOnStart ==
    /\ pinchState = "idle"
    /\ pinchState' = "active"
    /\ isPinching' = TRUE
    /\ savedScale' = scale
    /\ pinchSeen' = (pinchSeen \/ samples # <<>>)
    /\ UNCHANGED <<drawingVars, samples, scale, translateX, translateY, savedTranslateX,
                   savedTranslateY, spring, drawState, panState, platformOS, inputs,
                   panReleased>>

PinchOnUpdate(eventScale) ==
    /\ pinchState = "active"
    /\ scale' = pinchedScale(savedScale, eventScale)
    /\ UNCHANGED <<drawingVars, isPinching, savedScale, translateX, translateY,
                   savedTranslateX, savedTranslateY, spring, drawState, panState,
                   pinchState, platformOS, inputs, samples, pinchSeen, panReleased>>

PinchOnEnd ==
    /\ pinchState = "active"
    /\ pinchState' = "idle"
    /\ isPinching' = FALSE
    /\ UNCHANGED <<drawingVars, viewportVars, drawState, panState, platformOS, inputs,
                   samples, pinchSeen, panReleased>>

\* the pinch is cancelled: no callback of the component is registered for it
PinchCancel ==
    /\ pinchState = "active"
    /\ pinchState' = "idle"
    /\ UNCHANGED <<drawingVars, isPinching, viewportVars, drawState, panState,
                   platformOS, inputs, samples, pinchSeen, panReleased>>

\* ------------------------------------------------------------ pan gesture
PanOnStart ==
    /\ panState = "idle"
    /\ drawState = "idle"
    /\ panState' = "active"
    /\ savedTranslateX' = translateX
    /\ savedTranslateY' = translateY
    /\ panReleased' = FALSE
    /\ UNCHANGED <<drawingVars, isPinching, scale, savedScale, translateX, translateY,
                   spring, drawState, pinchState, platformOS, inputs, samples, pinchSeen>>

PanOnUpdate(ev) ==
    /\ panState = "active"
    /\ savedTranslateX + ev.x \in -inputs.maxTranslate .. inputs.maxTranslate
    /\ savedTranslateY + ev.y \in -inputs.maxTranslate .. inputs.maxTranslate
    /\ translateX' = savedTranslateX + ev.x
    /\ translateY' = savedTranslateY + ev.y
    /\ spring' = NoSpring
    /\ UNCHANGED <<drawingVars, isPinching, scale, savedScale, savedTranslateX,
                   savedTranslateY, drawState, panState, pinchState, platformOS, inputs,
                   samples, pinchSeen, panReleased>>

PanOnEnd ==
    /\ panState = "active"
    /\ panState' = "idle"
    /\ LET maxTranslateX == ((scale - ScaleUnit) * SCREEN_WIDTH) \div (2 * ScaleUnit)
           maxTranslateY == ((scale - ScaleUnit) * SCREEN_HEIGHT) \div (2 * ScaleUnit)
           toX == Min(Max(translateX, -maxTranslateX), maxTranslateX)
           toY == Min(Max(translateY, -maxTranslateY), maxTranslateY)
       IN  \* a spring whose target is the current value has nothing to animate
           spring' = IF toX = translateX /\ toY = translateY
                     THEN NoSpring
                     ELSE [active |-> TRUE, x |-> toX, y |-> toY]
    /\ panReleased' = (scale >= ScaleUnit)
    /\ UNCHANGED <<drawingVars, isPinching, scale, savedScale, translateX, translateY,
                   savedTranslateX, savedTranslateY, drawState, pinchState, platformOS, inputs,
                   samples, pinchSeen>>

\* the pan is cancelled: no callback of the component is registered for it
PanCancel ==
    /\ panState = "active"
    /\ panState' = "idle"
    /\ UNCHANGED <<drawingVars, isPinching, viewportVars, drawState, pinchState,
                   platformOS, inputs, samples, pinchSeen, panReleased>>

\* the withSpring animation started by the pan's end reaches its target
SpringSettle ==
    /\ spring.active
    /\ translateX' = spring.x
    /\ translateY' = spring.y
    /\ spring' = NoSpring
    /\ UNCHANGED <<drawingVars, isPinching, scale, savedScale, savedTranslateX,
                   savedTranslateY, drawState, panState, pinchState, platformOS, inputs,
                   samples, pinchSeen, panReleased>>

\* ------------------------------------------------------------------ Next
Next ==
    \/ Render
    \/ Undo
    \/ Redo
    \/ \E t \in inputs.tools : SetTool(t)
    \/ \E uri \in inputs.uris : SetBackgroundImage(uri)
    \/ \E ev \in inputs.events, rect \in inputs.rects : DrawOnStart(ev, rect)
    \/ \E ev \in inputs.events, rect \in inputs.rects : DrawOnUpdate(ev, rect)
    \/ DrawOnEnd
    \/ DrawOnFinalize
    \/ PinchOnStart
    \/ \E s \in inputs.pinchScales : PinchOnUpdate(s)
    \/ PinchOnEnd
    \/ PinchCancel
    \/ PanOnStart
    \/ \E ev \in inputs.panTranslations : PanOnUpdate(ev)
    \/ PanOnEnd
    \/ PanCancel
    \/ SpringSettle

Spec == Init /\ [][Next]_vars
SpecCapture == InitCapture /\ [][Next]_vars
SpecViewport == InitViewport /\ [][Next]_vars
SpecBackground == InitBackground /\ [][Next]_vars
SpecCoord == InitCoord /\ [][Next]_vars
SpecFallback == InitFallback /\ [][Next]_vars
SpecLifo == InitLifo /\ [][Next]_vars
SpecZoom == InitZoom /\ [][Next]_vars
SpecTools == InitTools /\ [][Next]_vars

\* ================================================================ claims
\* what a step of the draw gesture looks like from outside
DrawStarts == drawState = "idle" /\ drawState' = "active"
DrawEnds == drawState = "active" /\ drawState' = "ended"
DrawFinalizes == drawState # "idle" /\ drawState' = "idle"
StyleOf(path) == [color |-> path.color, width |-> path.width, type |-> path.type]
\* the style table of the specification
ToolStyle ==
    [pen |-> [color |-> "black", width |-> 2],
     highlighter |-> [color |-> "rgba(255, 255, 0, 0.5)", width |-> 20],
     eraser |-> [color |-> "white", width |-> 30]]

\* C1 redo invalidation: once a draw gesture has been completed and its
\* stroke committed, redo() is a no-op: it leaves committedStrokes as they
\* are and restores no stroke undone before the gesture.
C1_RedoInvalidated ==
    [][(DrawEnds /\ Len(paths') > Len(paths)) => redo(History').paths = paths']_vars

C3_PinchCancelsStroke ==
    [][(pinchSeen /\ samples # <<>>) =>
          /\ DrawEnds => paths' = paths
          /\ (currentPath # NULL /\ currentPath' # NULL)
                => currentPath'.points = currentPath.points]_vars

C5_ZoomClamp == MinScale <= scale /\ scale <= MaxScale

\* a 5x pinch from scale 1 has produced scale 3.0
C5_Witness == pinchState = "active" /\ savedScale = ScaleUnit /\ scale = MaxScale

\* C6 tool isolation: a step that changes the tool changes neither the stroke
\* in progress nor the committed strokes; no step changes the style of the
\* stroke in progress; the stroke a draw end commits has the style the
\* captured stroke had, whatever the tool is by then.
C6_ToolIsolation ==
    [][/\ tool' # tool => (currentPath' = currentPath /\ paths' = paths)
       /\ (currentPath # NULL /\ currentPath' # NULL)
             => StyleOf(currentPath') = StyleOf(currentPath)
       /\ (DrawEnds /\ paths' # paths)
             => StyleOf(Last(paths')) = StyleOf(closure.currentPath)]_vars

\* a two-point stroke in progress keeps the highlighter style after the tool
\* was set back to the pen and the component re-rendered
C6_Witness ==
    /\ drawState = "active"
    /\ currentPath # NULL
    /\ Len(currentPath.points) = 2
    /\ StyleOf(currentPath) = [color |-> "rgba(255, 255, 0, 0.5)", width |-> 20,
                               type |-> "highlighter"]
    /\ tool = "pen"
    /\ closure.tool = "pen"

\* C7 invalid history requests: undo() with no committed stroke and redo()
\* with an empty redo buffer change neither committedStrokes nor the redo
\* buffer.
C7_InvalidRequestsAreNoOps ==
    /\ paths = <<>> => undo(History, closure.paths) = History
    /\ undoStack = <<>> => redo(History) = History

\* C8 capture completeness: the end of a draw gesture that created a stroke
\* and saw no pinch appends exactly one stroke to the tail of
\* committedStrokes, holding every point delivered to the gesture in
\* delivery order, and leaves currentStroke none.
C8_CaptureComplete ==
    [][(DrawEnds /\ samples # <<>> /\ ~pinchSeen) =>
          /\ Len(paths') = Len(paths) + 1
          /\ Front(paths') = paths
          /\ Last(paths').points = samples
          /\ currentPath' = NULL]_vars

\* C9 tool style mapping: the stroke a draw-gesture start creates has the
\* kind of the active tool and that tool's colour and width.
C9_ToolStyleMapping ==
    [][(DrawStarts /\ ~isPinching) =>
          /\ currentPath' # NULL
          /\ currentPath'.type = tool
          /\ currentPath'.color = ToolStyle[tool].color
          /\ currentPath'.width = ToolStyle[tool].width]_vars

\* C10 background image: setBackgroundImage(uri) makes uri the background
\* image, and a step that changes the background image changes nothing of
\* the strokes, the history, the tool or the viewport.
C10_BackgroundImageFrame ==
    [][/\ \A uri \in inputs.uris : SetBackgroundImage(uri) => backgroundImage' = uri
       /\ backgroundImage' # backgroundImage =>
             UNCHANGED <<paths, undoStack, redoStack, currentPath, tool, closure,
                         scale, translateX, translateY>>]_vars

\* the background image was replaced while strokes and undone strokes exist
C10_Witness ==
    /\ backgroundImage = "file:a.png"
    /\ paths # <<>>
    /\ undoStack # <<>>

\* C11 mode exclusion: currentStroke is non-none only while a draw gesture is
\* in progress, and never while a pan gesture or a pinch gesture is active.
C11_ModeExclusion ==
    currentPath # NULL =>
        /\ drawState # "idle"
        /\ panState = "idle"
        /\ pinchState = "idle"

\* C12 pan-release clamp: the translation a pan end sets lies within
\* -m .. m on each axis, m = (scale - 1) * canvas extent / 2, and an axis
\* already within its range keeps its value.
C12_PanReleaseClamp ==
    [][PanOnEnd =>
          LET mX == ((scale - ScaleUnit) * SCREEN_WIDTH) \div (2 * ScaleUnit)
              mY == ((scale - ScaleUnit) * SCREEN_HEIGHT) \div (2 * ScaleUnit)
              toX == IF spring'.active THEN spring'.x ELSE translateX'
              toY == IF spring'.active THEN spring'.y ELSE translateY'
          IN  /\ -mX <= toX /\ toX <= mX
              /\ -mY <= toY /\ toY <= mY
              /\ (-mX <= translateX /\ translateX <= mX) => toX = translateX
              /\ (-mY <= translateY /\ translateY <= mY) => toY = translateY]_vars

\* the conversion of the specification: (screen - origin - translate) / scale
\* with the scale and translation of the moment, clamped to the canvas
LogicalPoint(ev, rect) ==
    [x |-> Max(0, Min(((ev.x - rect.left - translateX) * ScaleUnit) \div scale,
                      SCREEN_WIDTH)),
     y |-> Max(0, Min(((ev.y - rect.top - translateY) * ScaleUnit) \div scale,
                      SCREEN_HEIGHT))]

\* C13 coordinate conversion: with the canvas origin known, the point a draw
\* start records and the point a draw update appends are the converted,
\* clamped event position, so they lie within the logical canvas.
C13_CoordinateConversion ==
    [][\A ev \in inputs.events, rect \in inputs.rects \ {NoRect} :
          /\ (DrawOnStart(ev, rect) /\ ~isPinching)
                => currentPath'.points = <<LogicalPoint(ev, rect)>>
          /\ (DrawOnUpdate(ev, rect) /\ currentPath' # currentPath)
                => Last(currentPath'.points) = LogicalPoint(ev, rect)]_vars

\* C14 coordinate-resolution failure: when the canvas cannot be measured, a
\* draw start records the raw event position as the first point of a new
\* stroke, and a draw update that records a point appends the raw position.
C14_RawOnFailure ==
    [][\A ev \in inputs.events :
          /\ (DrawOnStart(ev, NoRect) /\ ~isPinching)
                => /\ isDrawing'
                   /\ currentPath' # NULL
                   /\ currentPath'.points = <<[x |-> ev.x, y |-> ev.y]>>
          /\ (DrawOnUpdate(ev, NoRect) /\ currentPath' # currentPath)
                => currentPath'.points =
                       Append(currentPath.points, [x |-> ev.x, y |-> ev.y])]_vars

\* on the web, a stroke in progress holds two raw positions outside the
\* canvas: its start and its update were recorded without a measured rect
C14_Witness ==
    /\ platformOS = "web"
    /\ currentPath # NULL
    /\ currentPath.points = <<[x |-> E1.x, y |-> E1.y], [x |-> E1.x, y |-> E1.y]>>
    /\ E1.y > SCREEN_HEIGHT

\* k undo() calls, each followed by a re-render (the handle sees the paths
\* the previous call left), and k redo() calls
RECURSIVE UndoTimes(_, _)
UndoTimes(h, k) == IF k = 0 THEN h ELSE UndoTimes(undo(h, h.paths), k - 1)
RECURSIVE RedoTimes(_, _)
RedoTimes(h, k) == IF k = 0 THEN h ELSE RedoTimes(redo(h), k - 1)
RECURSIVE Reverse(_)
Reverse(s) == IF s = <<>> THEN <<>> ELSE Append(Reverse(Tail(s)), Head(s))

\* C15 repeated undo/redo is LIFO: from a rendered history of n strokes, k
\* undo() calls with a re-render after each remove the last k strokes, most
\* recent first, and k redo() calls then give back the committed strokes in
\* their order and the redo buffer as it was; an undo() on rendered paths
\* and a redo() step do what the k-fold composition is built from.
C15_UndoRedoLifo ==
    /\ [](\A k \in 0 .. Len(paths) :
             LET n == Len(paths)
                 u == UndoTimes(History, k)
             IN  /\ u.paths = SubSeq(paths, 1, n - k)
                 /\ u.undoStack = undoStack \o Reverse(SubSeq(paths, n - k + 1, n))
                 /\ RedoTimes(u, k) = History)
    /\ [][(Undo /\ closure.paths = paths) =>
             <<paths', undoStack'>> = <<UndoTimes(History, 1).paths,
                                        UndoTimes(History, 1).undoStack>>]_vars
    /\ [][Redo => <<paths', undoStack'>> = <<RedoTimes(History, 1).paths,
                                             RedoTimes(History, 1).undoStack>>]_vars

\* two different strokes were undone, the later one first, and the empty
\* committed history is rendered: two redo() calls are due
C15_Witness ==
    /\ paths = <<>>
    /\ closure.paths = <<>>
    /\ Len(undoStack) = 2
    /\ Len(undoStack[1].points) = 2
    /\ Len(undoStack[2].points) = 1

\* a step of the pan gesture or of the pinch gesture
NavigationStep ==
    \/ PinchOnStart
    \/ \E s \in inputs.pinchScales : PinchOnUpdate(s)
    \/ PinchOnEnd
    \/ PanOnStart
    \/ \E ev \in inputs.panTranslations : PanOnUpdate(ev)
    \/ PanOnEnd
IsPrefix(s, t) == Len(s) <= Len(t) /\ SubSeq(t, 1, Len(s)) = s

\* C16 navigation does not touch history (the redo buffer is undoStack): pan
\* and pinch callbacks change neither committedStrokes, the redo buffer nor
\* the tool; undo() keeps what the redo buffer holds; a step after which the
\* redo buffer no longer starts with its old content is a redo() or a step
\* of a draw gesture.
C16_NavigationKeepsHistory ==
    [][/\ NavigationStep => UNCHANGED <<paths, undoStack, tool>>
       /\ Undo => IsPrefix(undoStack, undoStack')
       /\ ~IsPrefix(undoStack, undoStack') => (Redo \/ drawState' # drawState)]_vars

\* a pan has moved the viewport during a pinch while a stroke is committed
\* and another one is undone
C16_Witness ==
    /\ panState = "active"
    /\ pinchState = "active"
    /\ translateX # 0
    /\ paths # <<>>
    /\ undoStack # <<>>

\* C17 pinch suppression is released: the is-pinching flag is set only while
\* a pinch gesture is active, and a draw gesture that starts while no pinch
\* is active creates a stroke in progress.
C17_PinchFlagReleased ==
    /\ [](isPinching => pinchState = "active")
    /\ [][(DrawStarts /\ pinchState = "idle") => currentPath' # NULL]_vars

\* C18 undo acts on the current history: an undo() that finds committed
\* strokes removes the current tail of committedStrokes and puts it on the
\* redo buffer, whether or not the component re-rendered since the last
\* change.
C18_UndoOnCurrentHistory ==
    [][(Undo /\ paths # <<>>) =>
          /\ paths' = Front(paths)
          /\ undoStack' = Append(undoStack, Last(paths))]_vars

\* C19 viewport in bounds at rest: after a pan was released at a scale of at
\* least 1, whenever the viewport is at rest (no pan since, the release
\* animation settled) at a scale of at least 1, the translation lies within
\* (scale - 1) * canvas extent / 2 on each axis, whatever pinches followed.
C19_ViewportInBoundsAtRest ==
    (panReleased /\ panState = "idle" /\ ~spring.active /\ scale >= ScaleUnit) =>
        /\ 2 * ScaleUnit * Max(translateX, -translateX) <= (scale - ScaleUnit) * SCREEN_WIDTH
        /\ 2 * ScaleUnit * Max(translateY, -translateY) <= (scale - ScaleUnit) * SCREEN_HEIGHT

====
